---- MODULE Spec2Model ----
(***************************************************************************)
(* Sequential enumeration of discrete sample sites: pyro/infer/enum.py.    *)
(*                                                                         *)
(* Five state machines share this module:                                  *)
(*   Spec        the generator iter_discrete_traces driving the queue      *)
(*               handler over a stochastic program (a list of statements), *)
(*   SpecEscape  the predicate iter_discrete_escape on drawn inputs,       *)
(*   SpecExtend  the generator iter_discrete_extend on a heap of Python    *)
(*               objects (traces, site dicts, infer dicts), followed by    *)
(*               in-place mutations of what it yielded,                    *)
(*   SpecPair    get_importance_trace on a model/guide pair,               *)
(*   SpecConfig  config_enumerate, its configurator and the guide it       *)
(*               returns.                                                  *)
(***************************************************************************)
EXTENDS Integers, Sequences, FiniteSets, TLC

\* Longest program (number of statements) the driver is run on.
MaxSites == 3

\* Longest input trace handed to iter_discrete_extend in SpecExtend.
MaxTrace == 2

\* Most mutations a consumer makes to the traces iter_discrete_extend yielded.
MaxMutations == 1

\* Longest model and guide get_importance_trace is run on.
MaxPairSites == 2

\* Longest guide config_enumerate is applied to.
MaxConfigSites == 1

\* Most applications of config_enumerate stacked on one guide.
MaxApplications == 2

VARIABLES
    prog,        \* fn: the stochastic function, a sequence of statements
    pc,          \* position of the generator iter_discrete_traces
    queue,       \* the LifoQueue of partial traces; its top is the last element
    P,           \* the partial trace popped for the replay in progress
    tr,          \* the trace accumulated by the replay in progress
    idx,         \* the statement of prog the replay is at
    yielded,     \* history: the branch of each trace yielded so far, in order
    completed,   \* history: number of replays that ran to completion
    replayed,    \* history: the branches of the work items popped so far
    produced,    \* history: the traces the last replay produced (forks or a full trace)
    outcome,     \* what the caller's last request returned
    requests,    \* history: number of requests made to the open generator
    emsg,        \* SpecEscape: the message given to iter_discrete_escape
    etrace,      \* SpecEscape: the trace given to iter_discrete_escape
    eres,        \* SpecEscape: <<>> before the call, <<result>> after it
    heap,        \* SpecExtend: the Python objects
    xin,         \* SpecExtend: [trace, site]: references of the call's arguments
    xout,        \* SpecExtend: references of the traces yielded, in order
    xpc,         \* SpecExtend: position of the generator iter_discrete_extend
    xvalues,     \* SpecExtend: values, the support computed on entry
    xnext,       \* SpecExtend: the iteration the for loop is at
    xmut,        \* SpecExtend: history: the mutations made, each <<fork, site, entry>>
    model,       \* SpecPair: the model, a sequence of statements
    guide,       \* SpecPair: the guide, a sequence of statements
    validation,  \* SpecPair: what is_validation_enabled() returns
    max_iarange_nesting,  \* SpecPair: the nesting bound handed to the checks
    ipc,         \* SpecPair: position in get_importance_trace
    guide_trace, \* SpecPair: the local guide_trace
    model_trace, \* SpecPair: the local model_trace
    iret,        \* SpecPair: what the call returned or raised
    cguide,      \* SpecConfig: the guide argument: <<>> (None) or <<program>>
    cdefault,    \* SpecConfig: the default argument
    cexpand,     \* SpecConfig: the expand argument
    cpc,         \* SpecConfig: position of the caller
    cret,        \* SpecConfig: what the last call returned or raised
    clayers,     \* SpecConfig: the config_fn closures wrapped around the guide
    corder,      \* SpecConfig: the order in which stacked handlers see a message
    ctrace       \* SpecConfig: the sites of a run of the returned guide

driverVars ==
    <<prog, pc, queue, P, tr, idx, yielded, completed, replayed, produced, outcome, requests>>
escapeVars == <<emsg, etrace, eres>>
extendVars == <<heap, xin, xout, xpc, xvalues, xnext, xmut>>
pairVars ==
    <<model, guide, validation, max_iarange_nesting, ipc, guide_trace, model_trace, iret>>
configVars == <<cguide, cdefault, cexpand, cpc, cret, clayers, corder, ctrace>>
vars == <<driverVars, escapeVars, extendVars, pairVars, configVars>>

----------------------------------------------------------------------------
(* Sites and their infer mappings.                                         *)

\* A Python dict with optional keys: `keys` holds the keys present; a field
\* whose key is absent holds the filler below and is never read.
InferKeys == {"enumerate", "expand", "_enum_total"}

Infer(keys, enum, expand, total) ==
    [keys |-> keys,
     enumerate |-> IF "enumerate" \in keys THEN enum ELSE "None",
     expand |-> IF "expand" \in keys THEN expand ELSE FALSE,
     enum_total |-> IF "_enum_total" \in keys THEN total ELSE 0]

\* dict.get("enumerate"): None when the key is absent.
GetEnumerate(infer) == IF "enumerate" \in infer.keys THEN infer.enumerate ELSE "None"

\* dict.get("expand", default).
GetExpand(infer, default) == IF "expand" \in infer.keys THEN infer.expand ELSE default

\* infer["_enum_total"] = n.
SetEnumTotal(infer, n) ==
    [infer EXCEPT !.keys = @ \cup {"_enum_total"}, !.enum_total = n]

\* Default of the expand directive.
EXPAND_DEFAULT == TRUE

\* fn.enumerate_support(expand): the ordered support of the distribution.
\* expand only broadcasts each value over the batch shape, which is not modelled.
enumerate_support(fn, expand) == fn.support

\* Trace(): the empty trace.
EmptyTrace == <<>>

\* A site value is <<>> (None) or <<v>>.
None == <<>>

\* The names recorded in a trace (a sequence of sites).
Names(trace) == {trace[i].name : i \in DOMAIN trace}

\* trace.nodes[name].
Node(trace, name) == trace[CHOOSE i \in DOMAIN trace : trace[i].name = name]

----------------------------------------------------------------------------
(* iter_discrete_escape.                                                   *)

\* A predicate that also suspends at sites enumerated in parallel.
iter_discrete_escape_any(trace, msg) ==
    /\ msg.type = "sample"
    /\ ~msg.is_observed
    /\ GetEnumerate(msg.infer) \in {"sequential", "parallel"}
    /\ msg.name \notin Names(trace)

\* A predicate that also suspends at sites the trace has already resolved.
iter_discrete_escape_resolved(trace, msg) ==
    /\ msg.type = "sample"
    /\ ~msg.is_observed
    /\ GetEnumerate(msg.infer) = "sequential"

iter_discrete_escape(trace, msg) ==
    /\ msg.type = "sample"
    /\ ~msg.is_observed
    /\ GetEnumerate(msg.infer) = "sequential"
    /\ msg.name \notin Names(trace)

----------------------------------------------------------------------------
(* Python objects.  A heap holds three kinds of objects, each addressed by *)
(* its index: traces (lists of site references), site dicts (whose infer   *)
(* field is a reference) and infer dicts.  Allocation appends.             *)

EmptyHeap == [traces |-> <<>>, sites |-> <<>>, infers |-> <<>>]

\* The contents of a site dict, its infer dict read through the reference.
SiteValue(h, s) == [h.sites[s] EXCEPT !.infer = h.infers[h.sites[s].infer]]

\* The contents of a trace: the sequence of its sites' contents.
TraceValue(h, t) == [i \in DOMAIN h.traces[t] |-> SiteValue(h, h.traces[t][i])]

\* site.copy(): a new dict with the same entries; the infer dict is shared.
CopySite(h, s) == [h EXCEPT !.sites = Append(@, h.sites[s])]

\* extended_site["infer"] = site["infer"].copy(), extended_site being the
\* site dict allocated last.
CopyInfer(h, s) ==
    LET es == Len(h.sites)
        ni == Len(h.infers) + 1
    IN  [h EXCEPT !.infers = Append(@, h.infers[h.sites[s].infer]),
                  !.sites[es].infer = ni]

\* extended_site["infer"]["_enum_total"] = n.
StoreEnumTotal(h, n) ==
    LET es == Len(h.sites)
    IN  [h EXCEPT !.infers[h.sites[es].infer] = SetEnumTotal(@, n)]

\* A loop body that stores the first support element whatever the iteration.
StoreFirstValue(h, value) == [h EXCEPT !.sites[Len(h.sites)].value = <<0>>]

\* extended_site["value"] = value.
StoreValue(h, value) == [h EXCEPT !.sites[Len(h.sites)].value = <<value>>]

\* Trace.copy(): a new trace whose site list is a shallow copy of the
\* original's: each site dict is copied one level deep, so the objects its
\* entries refer to (the infer dict among them) stay shared with the original.
CopyTrace(h, t) ==
    LET old == h.traces[t]
        base == Len(h.sites)
    IN  [h EXCEPT !.sites = @ \o [i \in DOMAIN old |-> h.sites[old[i]]],
                  !.traces = Append(@, [i \in DOMAIN old |-> base + i])]

\* Trace.add_node(name, **kwargs) on the trace allocated last: the node is a
\* new dict holding the keyword arguments, i.e. the entries of site dict es.
AddNode(h, es) ==
    LET node == Len(h.sites) + 1
    IN  [h EXCEPT !.sites = Append(@, h.sites[es]),
                  !.traces[Len(h.traces)] = Append(@, node)]

\* A loop body that extends a new empty trace instead of a copy of the input.
ExtendBodyFreshTrace(h, trace, site, value, total) ==
    LET h1 == CopySite(h, site)
        h2 == CopyInfer(h1, site)
        h3 == StoreEnumTotal(h2, total)
        h4 == StoreValue(h3, value)
        h5 == [h4 EXCEPT !.traces = Append(@, <<>>)]
    IN  AddNode(h5, Len(h4.sites))

\* A loop body that stores the value as the total.
ExtendBodyWrongTotal(h, trace, site, value, total) ==
    LET h1 == CopySite(h, site)
        h2 == CopyInfer(h1, site)
        h3 == StoreEnumTotal(h2, value)
        h4 == StoreValue(h3, value)
        h5 == CopyTrace(h4, trace)
    IN  AddNode(h5, Len(h4.sites))

\* A loop body that annotates the infer dict of the site without copying it.
ExtendBodySharedInfer(h, trace, site, value, total) ==
    LET h1 == CopySite(h, site)
        h3 == StoreEnumTotal(h1, total)
        h4 == StoreValue(h3, value)
        h5 == CopyTrace(h4, trace)
    IN  AddNode(h5, Len(h4.sites))

\* One iteration of the for loop of iter_discrete_extend.
ExtendBody(h, trace, site, value, total) ==
    LET h1 == CopySite(h, site)
        h2 == CopyInfer(h1, site)
        h3 == StoreEnumTotal(h2, total)
        h4 == StoreValue(h3, value)
        h5 == CopyTrace(h4, trace)
    IN  AddNode(h5, Len(h4.sites))

\* F applied to the value of x, x being evaluated once.
Bind(x, F(_)) == CHOOSE r \in {F(v) : v \in {x}} : TRUE

RECURSIVE ExtendLoop(_, _, _, _, _, _)
\* The for loop from its i-th iteration: the heap reached and the traces yielded.
ExtendLoop(h, trace, site, values, i, out) ==
    IF i > Len(values) THEN [heap |-> h, out |-> out]
    ELSE Bind(ExtendBody(h, trace, site, values[i], Len(values)), LAMBDA h1 :
            ExtendLoop(h1, trace, site, values, i + 1, Append(out, Len(h1.traces))))

\* A generator that yields a copy of the input trace when the support is empty.
iter_discrete_extend_fallback(h, trace, site) ==
    LET s == h.sites[site]
        values == enumerate_support(s.fn, GetExpand(h.infers[s.infer], EXPAND_DEFAULT))
    IN  IF Len(values) = 0
        THEN [heap |-> CopyTrace(h, trace), out |-> <<Len(h.traces) + 1>>]
        ELSE ExtendLoop(h, trace, site, values, 1, <<>>)

\* iter_discrete_extend(trace, site) consumed to exhaustion.
iter_discrete_extend(h, trace, site) ==
    LET s == h.sites[site]
        values == enumerate_support(s.fn, GetExpand(h.infers[s.infer], EXPAND_DEFAULT))
    IN  ExtendLoop(h, trace, site, values, 1, <<>>)

\* A heap holding a trace and a message given by their contents, no object
\* shared: the trace is object 1 and the message is the last site.
Load(trace, msg) ==
    LET all == Append(trace, msg)
    IN  [traces |-> << [i \in DOMAIN trace |-> i] >>,
         sites |-> [i \in DOMAIN all |-> [all[i] EXCEPT !.infer = i]],
         infers |-> [i \in DOMAIN all |-> all[i].infer]]

\* The contents of the traces iter_discrete_extend yields for a trace and a
\* message given by their contents.
ExtendValues(trace, msg) ==
    Bind(Load(trace, msg), LAMBDA h :
    Bind(iter_discrete_extend(h, 1, Len(trace) + 1), LAMBDA r :
        [i \in DOMAIN r.out |-> TraceValue(r.heap, r.out[i])]))

----------------------------------------------------------------------------
(* The stochastic function fn: a sequence of statements, each a sample or  *)
(* param statement named after its position, or a conditional raise.       *)

SiteName(i) == <<"s1", "s2", "s3", "s4", "s5">>[i]

\* A distribution: its ordered support, the probability of each support
\* element in tenths, and its has_enumerate_support attribute, <<>> when the
\* object has no such attribute.
Bernoulli == [support |-> <<0, 1>>, probs |-> <<7, 3>>, has_enumerate_support |-> <<TRUE>>]
Categorical3 ==
    [support |-> <<0, 1, 2>>, probs |-> <<5, 3, 2>>, has_enumerate_support |-> <<TRUE>>]
EmptySupport == [support |-> <<>>, probs |-> <<>>, has_enumerate_support |-> <<TRUE>>]

\* A distribution that cannot be enumerated, and a function that is no
\* distribution at all.
Normal == [support |-> <<>>, probs |-> <<>>, has_enumerate_support |-> <<FALSE>>]
Callable == [support |-> <<>>, probs |-> <<>>, has_enumerate_support |-> <<>>]

\* The scale a message carries when no handler has scaled it: 1, as the
\* fraction num/den.
Unscaled == [num |-> 1, den |-> 1]

\* The message of a statement before any handler has seen it.
Msg(name, type, observed, fn, value, infer) ==
    [name |-> name, type |-> type, is_observed |-> observed, fn |-> fn,
     value |-> value, infer |-> infer, scale |-> Unscaled]

Sequential == Infer({"enumerate"}, "sequential", FALSE, 0)
Parallel == Infer({"enumerate"}, "parallel", FALSE, 0)
NoDirective == Infer({}, "None", FALSE, 0)

Kinds == {"seq2", "seq3", "seq0", "par2", "obs", "param", "raise1"}

\* The statement of a kind at position i.  An observed site carries its
\* observation; "raise1" raises when the site before it drew 1.
Stmt(kind, i) ==
    CASE kind = "seq2" -> Msg(SiteName(i), "sample", FALSE, Bernoulli, None, Sequential)
      [] kind = "seq3" -> Msg(SiteName(i), "sample", FALSE, Categorical3, None, Sequential)
      [] kind = "seq0" -> Msg(SiteName(i), "sample", FALSE, EmptySupport, None, Sequential)
      [] kind = "par2" -> Msg(SiteName(i), "sample", FALSE, Bernoulli, None, Parallel)
      [] kind = "obs" -> Msg(SiteName(i), "sample", TRUE, Bernoulli, <<1>>, Sequential)
      [] kind = "param" -> Msg(SiteName(i), "param", FALSE, EmptySupport, <<0>>, NoDirective)
      [] kind = "raise1" -> Msg(SiteName(i), "raise", FALSE, EmptySupport, None, NoDirective)

Programs ==
    UNION {{[i \in 1..n |-> Stmt(k[i], i)] : k \in [1..n -> Kinds]} : n \in 0..MaxSites}

\* Whether a raise statement raises, given the trace accumulated so far.
Raises(trace) == Len(trace) > 0 /\ trace[Len(trace)].value = <<1>>

\* The values a site that is not enumerated may take when it runs: its
\* observation or parameter value if it has one, else any draw from fn.
Draws(msg) ==
    IF msg.value # None THEN {msg.value}
    ELSE {<<msg.fn.support[i]>> : i \in DOMAIN msg.fn.support}

----------------------------------------------------------------------------
(* iter_discrete_traces: the generator and the queue handler it drives.    *)

\* A site of a trace that was enumerated sequentially.
IsFork(site) == iter_discrete_escape(EmptyTrace, site)

\* The branch of a trace: its sequentially enumerated sites, in order.
Branch(trace) == SelectSeq(trace, IsFork)

\* Queue.get() of a first-in first-out queue.
FifoGet(q) == [item |-> q[1], rest |-> Tail(q)]

\* LifoQueue.get(): the item put last, and the queue without it.
LifoGet(q) == [item |-> q[Len(q)], rest |-> SubSeq(q, 1, Len(q) - 1)]

\* A loop guard that gives up one item early.
QueueAtMostOne(q) == Len(q) <= 1

\* queue.empty().
QueueEmpty(q) == q = <<>>

\* A generator that swallows the exception and goes on with the loop.
OnExceptionContinue == [pc |-> "while", outcome |-> "none"]

\* The generator has no handler around get_trace: an exception raised by a
\* replay ends the generator and reaches the caller of the request.
OnException == [pc |-> "failed", outcome |-> "exception"]

\* A generator that collects the trace and goes on with the loop.
OnYieldContinue == [pc |-> "while", outcome |-> "trace"]

\* yield: the generator hands the trace over and waits for the next request.
OnYield == [pc |-> "yielded", outcome |-> "trace"]

\* A handler that treats the empty stack as an error.
OnNoContinuationRaise == [pc |-> "failed", outcome |-> "exception"]

\* The handler finds the stack empty: no continuation, the enumeration ends.
OnNoContinuation == [pc |-> "done", outcome |-> "StopIteration"]

\* The other two machines stand still while one runs.
EscapeIdle == emsg = Stmt("param", 1) /\ etrace = EmptyTrace /\ eres = <<>>
ExtendIdle ==
    /\ heap = EmptyHeap
    /\ xin = [trace |-> 0, site |-> 0]
    /\ xout = <<>>
    /\ xpc = "idle"
    /\ xvalues = <<>>
    /\ xnext = 0
    /\ xmut = <<>>

PairIdle ==
    /\ model = <<>>
    /\ guide = <<>>
    /\ validation = FALSE
    /\ max_iarange_nesting = 0
    /\ ipc = "idle"
    /\ guide_trace = <<>>
    /\ model_trace = <<>>
    /\ iret = [kind |-> "none", error |-> "", site |-> ""]
ConfigIdle ==
    /\ cguide = [given |-> FALSE, program |-> <<>>]
    /\ cdefault = "sequential"
    /\ cexpand = "True"
    /\ cpc = "idle"
    /\ cret = "none"
    /\ clayers = <<>>
    /\ corder = "inner"
    /\ ctrace = <<>>

DriverInit ==
    /\ prog \in Programs
    /\ pc = "created"
    /\ queue = <<>>
    /\ P = EmptyTrace
    /\ tr = EmptyTrace
    /\ idx = 0
    /\ yielded = <<>>
    /\ completed = 0
    /\ replayed = {}
    /\ produced = <<>>
    /\ outcome = "none"
    /\ requests = 0

Init == DriverInit /\ EscapeIdle /\ ExtendIdle /\ PairIdle /\ ConfigIdle

\* The first request: the generator body runs up to its while loop.
Start ==
    /\ pc = "created"
    /\ queue' = <<EmptyTrace>>
    /\ pc' = "while"
    /\ requests' = requests + 1
    /\ UNCHANGED <<escapeVars, extendVars, pairVars, configVars,
                   prog, P, tr, idx, yielded, completed,
                   replayed, produced, outcome>>

\* A later request: the generator resumes after its yield.
Resume ==
    /\ pc = "yielded"
    /\ pc' = "while"
    /\ requests' = requests + 1
    /\ UNCHANGED <<escapeVars, extendVars, pairVars, configVars,
                   prog, queue, P, tr, idx, yielded, completed,
                   replayed, produced, outcome>>

\* while not queue.empty(): the loop is left and the generator returns.
WhileExit ==
    /\ pc = "while"
    /\ QueueEmpty(queue)
    /\ pc' = "done"
    /\ outcome' = "StopIteration"
    /\ UNCHANGED <<escapeVars, extendVars, pairVars, configVars,
                   prog, queue, P, tr, idx, yielded, completed,
                   replayed, produced, requests>>

\* while not queue.empty(): the body calls traced_fn.get_trace.
WhileEnter ==
    /\ pc = "while"
    /\ ~QueueEmpty(queue)
    /\ pc' = "get_trace"
    /\ UNCHANGED <<escapeVars, extendVars, pairVars, configVars,
                   prog, queue, P, tr, idx, yielded, completed,
                   replayed, produced, outcome, requests>>

\* The handler pops the top partial trace and starts a replay of fn.
Pop ==
    /\ pc = "get_trace"
    /\ queue # <<>>
    /\ P' = LifoGet(queue).item
    /\ queue' = LifoGet(queue).rest
    /\ tr' = EmptyTrace
    /\ idx' = 1
    /\ replayed' = replayed \cup {Branch(P')}
    /\ produced' = <<>>
    /\ pc' = "replay"
    /\ UNCHANGED <<escapeVars, extendVars, pairVars, configVars,
                   prog, yielded, completed, outcome, requests>>

\* The stack emptied without a replay completing.
NoContinuation ==
    /\ pc = "get_trace"
    /\ queue = <<>>
    /\ pc' = OnNoContinuation.pc
    /\ outcome' = OnNoContinuation.outcome
    /\ UNCHANGED <<escapeVars, extendVars, pairVars, configVars,
                   prog, queue, P, tr, idx, yielded, completed,
                   replayed, produced, requests>>

\* The site escapes: the replay is suspended and every fork is pushed.
Escape ==
    /\ pc = "replay"
    /\ idx <= Len(prog)
    /\ prog[idx].type # "raise"
    /\ iter_discrete_escape(P, prog[idx])
    /\ \E forks \in {ExtendValues(tr, prog[idx])} :
          produced' = forks /\ queue' = queue \o forks
    /\ pc' = "get_trace"
    /\ UNCHANGED <<escapeVars, extendVars, pairVars, configVars,
                   prog, P, tr, idx, yielded, completed,
                   replayed, outcome, requests>>

\* The site is recorded in the popped trace: its value is forced.
Force ==
    /\ pc = "replay"
    /\ idx <= Len(prog)
    /\ prog[idx].type # "raise"
    /\ ~iter_discrete_escape(P, prog[idx])
    /\ prog[idx].name \in Names(P)
    /\ tr' = Append(tr, [prog[idx] EXCEPT !.value = Node(P, prog[idx].name).value])
    /\ idx' = idx + 1
    /\ UNCHANGED <<escapeVars, extendVars, pairVars, configVars,
                   prog, pc, queue, P, yielded, completed,
                   replayed, produced, outcome, requests>>

\* The site is resolved normally.
Resolve ==
    /\ pc = "replay"
    /\ idx <= Len(prog)
    /\ prog[idx].type # "raise"
    /\ ~iter_discrete_escape(P, prog[idx])
    /\ prog[idx].name \notin Names(P)
    /\ \E v \in Draws(prog[idx]) : tr' = Append(tr, [prog[idx] EXCEPT !.value = v])
    /\ idx' = idx + 1
    /\ UNCHANGED <<escapeVars, extendVars, pairVars, configVars,
                   prog, pc, queue, P, yielded, completed,
                   replayed, produced, outcome, requests>>

\* fn raises: the exception leaves get_trace and the generator.
Raise ==
    /\ pc = "replay"
    /\ idx <= Len(prog)
    /\ prog[idx].type = "raise"
    /\ Raises(tr)
    /\ pc' = OnException.pc
    /\ outcome' = OnException.outcome
    /\ UNCHANGED <<escapeVars, extendVars, pairVars, configVars,
                   prog, queue, P, tr, idx, yielded, completed,
                   replayed, produced, requests>>

\* The raise statement does not raise.
NoRaise ==
    /\ pc = "replay"
    /\ idx <= Len(prog)
    /\ prog[idx].type = "raise"
    /\ ~Raises(tr)
    /\ idx' = idx + 1
    /\ UNCHANGED <<escapeVars, extendVars, pairVars, configVars,
                   prog, pc, queue, P, tr, yielded, completed,
                   replayed, produced, outcome, requests>>

\* fn returns: get_trace returns the full trace and the generator yields it.
Complete ==
    /\ pc = "replay"
    /\ idx > Len(prog)
    /\ completed' = completed + 1
    /\ produced' = <<tr>>
    /\ yielded' = Append(yielded, Branch(tr))
    /\ pc' = OnYield.pc
    /\ outcome' = OnYield.outcome
    /\ UNCHANGED <<escapeVars, extendVars, pairVars, configVars,
                   prog, queue, P, tr, idx, replayed, requests>>

\* A request to a generator that has returned or raised.
Closed ==
    /\ pc \in {"done", "failed"}
    /\ outcome' = "StopIteration"
    /\ UNCHANGED <<escapeVars, extendVars, pairVars, configVars,
                   prog, pc, queue, P, tr, idx, yielded,
                   completed, replayed, produced, requests>>

\* The steps taken on a caller's request (Start, Resume, Closed) and those
\* of the generator and the handler serving it.
Next ==
    \/ Start
    \/ Resume
    \/ Closed
    \/ WhileExit
    \/ WhileEnter
    \/ Pop
    \/ NoContinuation
    \/ Escape
    \/ Force
    \/ Resolve
    \/ Raise
    \/ NoRaise
    \/ Complete

Spec == Init /\ [][Next]_vars

\* A caller that keeps requesting, and a handler that keeps running.
FairSpec == Spec /\ WF_vars(Next)

----------------------------------------------------------------------------
(* Properties of iter_discrete_traces.                                     *)

\* The tuple of values a full trace assigns to its sites, in order.
ValuesOf(trace) == [i \in DOMAIN trace |-> trace[i].value[1]]

\* The position of a value in a site's ordered support.
SupportIndex(site) ==
    CHOOSE i \in DOMAIN site.fn.support : <<site.fn.support[i]>> = site.value

\* The first position at which two traces of equal length differ in value,
\* 0 if there is none.
FirstDiff(t, u) ==
    IF \E i \in DOMAIN t : t[i].value # u[i].value
    THEN CHOOSE i \in DOMAIN t :
            /\ t[i].value # u[i].value
            /\ \A j \in 1..(i - 1) : t[j].value = u[j].value
    ELSE 0

\* fn consists of k independent sequentially-enumerable binary sites.
AllBinary == \A i \in DOMAIN prog : prog[i] = Stmt("seq2", i)

RECURSIVE Pow2(_)
Pow2(k) == IF k = 0 THEN 1 ELSE 2 * Pow2(k - 1)

\* C1: for k independent sequentially-enumerable binary sites and no other
\* site, no assignment is ever yielded twice, every yielded trace is full, and
\* on exhaustion exactly 2^k traces have been yielded, one for each assignment
\* of {0,1}^k.
C1_ProductSpace ==
    AllBinary =>
        /\ \A i \in DOMAIN yielded : ValuesOf(yielded[i]) \in [DOMAIN prog -> {0, 1}]
        /\ pc = "yielded" =>
              /\ Len(produced) = 1
              /\ [i \in DOMAIN prog |-> produced[1][i].name]
                    = [i \in DOMAIN prog |-> SiteName(i)]
              /\ ValuesOf(produced[1]) = ValuesOf(yielded[Len(yielded)])
        /\ \A i, j \in DOMAIN yielded :
              ValuesOf(yielded[i]) = ValuesOf(yielded[j]) => i = j
        /\ pc = "done" =>
              /\ Len(yielded) = Pow2(Len(prog))
              /\ \A a \in [DOMAIN prog -> {0, 1}] :
                    Cardinality({i \in DOMAIN yielded : ValuesOf(yielded[i]) = a}) = 1

C1_Witness == AllBinary /\ Len(prog) >= 3 /\ pc = "done" /\ Len(yielded) = Pow2(Len(prog))

\* C2: traces are yielded in reverse-support-order depth-first order: the
\* branches of two yielded traces first differ at some fork, and the one
\* yielded earlier holds the later support element there.  For two binary
\* sites the order of the yielded values is (1,1), (1,0), (0,1), (0,0).
C2_ReverseDepthFirst ==
    /\ \A i, j \in DOMAIN yielded :
          i < j =>
              LET d == FirstDiff(yielded[i], yielded[j])
              IN  /\ Len(yielded[i]) = Len(yielded[j])
                  /\ d # 0
                  /\ SupportIndex(yielded[i][d]) > SupportIndex(yielded[j][d])
    /\ (prog = <<Stmt("seq2", 1), Stmt("seq2", 2)>> /\ pc = "done") =>
          [i \in DOMAIN yielded |-> ValuesOf(yielded[i])]
              = << <<1, 1>>, <<1, 0>>, <<0, 1>>, <<0, 0>> >>

C2_Witness ==
    /\ prog = <<Stmt("seq2", 1), Stmt("seq2", 2)>>
    /\ pc = "done"
    /\ Len(yielded) = 4

\* fn has exactly one sequentially-enumerable site, whose support is empty,
\* and never raises.
OneEmptySupportSite ==
    /\ \A i \in DOMAIN prog : prog[i].type # "raise"
    /\ \E i \in DOMAIN prog :
          /\ prog[i] = Stmt("seq0", i)
          /\ \A j \in DOMAIN prog : IsFork(prog[j]) => j = i

Ended == pc \in {"done", "failed"}

\* C4 as stated: the caller who keeps requesting reaches exhaustion, and the
\* iterator never ends while a work item remains on the stack.
C4_EndsOnlyWhenEmpty == Ended => queue = <<>>

\* C4, amended: a caller who keeps requesting eventually finds the iterator
\* ended; it ends either by returning, and then the stack is empty, or by the
\* exception of a replay; and whenever the loop finds the stack empty the
\* iterator returns.
C4_Terminates ==
    /\ <>Ended
    /\ [](pc = "done" => queue = <<>>)
    /\ [][(pc = "while" /\ queue = <<>>) => pc' = "done"]_vars
    /\ [][(pc' = "failed" /\ pc # "failed") => (pc = "replay" /\ Raises(tr))]_vars

C4_Witness == pc = "done" /\ queue = <<>> /\ Len(yielded) >= 8

\* The generator is suspended or ended: no request is being served.
Idle == pc \in {"created", "yielded", "done", "failed"}

\* C5: at most one replay completes per request and each completed replay is
\* a yielded trace, nothing is popped or replayed while no request is being
\* served, and no item on the stack has ever been replayed.
C5_Lazy ==
    /\ [](completed = Len(yielded) /\ Len(yielded) <= requests)
    /\ [](\A i \in DOMAIN queue : Branch(queue[i]) \notin replayed)
    /\ [][Idle => (replayed' = replayed /\ completed' = completed /\ tr' = tr
                   /\ (pc # "created" => queue' = queue))]_vars

C5_Witness == pc = "yielded" /\ Len(yielded) = 2 /\ requests = 2 /\ Len(queue) >= 2

\* C6: every trace produced by replaying a popped item, be it a fork pushed
\* on the stack or a full trace yielded, records every site of the item with
\* the item's value.
C6_ForcedReplay ==
    \A k \in DOMAIN produced :
        \A i \in DOMAIN P :
            /\ P[i].name \in Names(produced[k])
            /\ Node(produced[k], P[i].name).value = P[i].value

C6_Witness ==
    /\ Len(P) >= 2
    /\ Len(produced) >= 2
    /\ pc = "get_trace"
    /\ \E i \in DOMAIN P : ~IsFork(P[i]) /\ P[i].value = <<0>> /\ P[i].type = "sample"

\* C7: an exception raised by a replay reaches the caller on that request and
\* leaves the traces yielded before as they are; from then on the iterator
\* yields nothing, whatever remains on the stack.
C7_ExceptionAborts ==
    /\ [][(pc = "replay" /\ idx <= Len(prog) /\ prog[idx].type = "raise" /\ Raises(tr))
            => (pc' = "failed" /\ outcome' = "exception" /\ yielded' = yielded)]_vars
    /\ [][pc = "failed"
            => (pc' = "failed" /\ yielded' = yielded /\ queue' = queue
                /\ outcome' # "trace")]_vars

C7_Witness ==
    /\ pc = "failed"
    /\ Len(yielded) >= 1
    /\ queue # <<>>
    /\ outcome = "StopIteration"

\* The fraction a/b times the fraction c/d.
Times(x, y) == [num |-> x.num * y.num, den |-> x.den * y.den]

\* Two fractions are the same number.
SameNumber(x, y) == x.num * y.den = y.num * x.den

RECURSIVE Weight(_)
\* The weight a trace carries: the product of the scales of its sites.
Weight(trace) ==
    IF trace = <<>> THEN Unscaled ELSE Times(trace[1].scale, Weight(Tail(trace)))

\* The probability of the value of an enumerated site, probs being in tenths.
Probability(site) == [num |-> site.fn.probs[SupportIndex(site)], den |-> 10]

RECURSIVE BranchProbability(_)
\* The product of the probabilities of the enumerated values of a trace.
BranchProbability(trace) ==
    IF trace = <<>> THEN Unscaled
    ELSE Times(IF IsFork(trace[1]) THEN Probability(trace[1]) ELSE Unscaled,
               BranchProbability(Tail(trace)))

\* C16: every trace yielded carries a weight equal to the product of the
\* probabilities of the enumerated values along its branch.
C16_Weighted ==
    pc = "yielded" =>
        \A k \in DOMAIN produced :
            SameNumber(Weight(produced[k]), BranchProbability(produced[k]))

\* A statement at which a replay of the popped item must suspend.
Unresolved(stmt) ==
    /\ stmt.type = "sample"
    /\ ~stmt.is_observed
    /\ "enumerate" \in stmt.infer.keys
    /\ stmt.infer.enumerate = "sequential"
    /\ \A i \in DOMAIN P : P[i].name # stmt.name

\* The sites among the first n statements of fn, in execution order.
SitesUpTo(n) == SelectSeq(SubSeq(prog, 1, n), LAMBDA stmt : stmt.type # "raise")

\* C17: a replay is suspended at the first statement that is an unresolved
\* sequentially-enumerable site; every work item pushed as a result consists
\* of the sites resolved before the escape, in execution order, followed by the
\* escaping site as its last entry, and holds no site of a later statement; and
\* the suspended replay yields nothing to the caller.
C17_SuspendsAtFirstEscape ==
    [][(pc = "replay" /\ pc' = "get_trace") =>
          /\ Unresolved(prog[idx])
          /\ \A j \in 1..(idx - 1) : ~Unresolved(prog[j])
          /\ queue' = queue \o produced'
          /\ \A k \in DOMAIN produced' :
                LET item == produced'[k]
                IN  /\ Len(item) = Len(tr) + 1
                    /\ SubSeq(item, 1, Len(tr)) = tr
                    /\ [i \in DOMAIN item |-> item[i].name]
                          = [i \in DOMAIN SitesUpTo(idx) |-> SitesUpTo(idx)[i].name]
                    /\ item[Len(item)].name = prog[idx].name
                    /\ item[Len(item)].value # None
                    /\ \A j \in (idx + 1)..Len(prog) :
                          \A i \in DOMAIN item : item[i].name # prog[j].name
          /\ yielded' = yielded
          /\ completed' = completed
          /\ outcome' = outcome]_vars

C17_Witness ==
    /\ pc = "get_trace"
    /\ Len(prog) = 3
    /\ idx = 2
    /\ Len(tr) = 1
    /\ Len(produced) = 3
    /\ Len(P) = 1
    /\ \A k \in DOMAIN produced : Len(produced[k]) = 2 /\ produced[k][2].name = "s2"

RECURSIVE Slack(_)
\* The sum of (support size - 1) over the enumerated sites of a branch.
Slack(branch) ==
    IF branch = <<>> THEN 0
    ELSE (Len(branch[1].fn.support) - 1) + Slack(Tail(branch))

\* The branch being explored: the item being replayed, or between replays the
\* item on top of the stack.
Explored == IF pc = "replay" \/ queue = <<>> THEN P ELSE queue[Len(queue)]

\* C18: the stack never holds more than 1 plus the sum of (support size - 1)
\* over the enumerable sites already resolved on the branch being explored;
\* for k binary sites it never holds more than k + 1 items.
C18_StackBounded ==
    /\ Len(queue) <= 1 + Slack(Branch(Explored))
    /\ AllBinary => Len(queue) <= Len(prog) + 1

C18_Witness ==
    /\ AllBinary
    /\ Len(prog) = 3
    /\ Len(queue) = 4
    /\ Slack(Branch(Explored)) = 3

----------------------------------------------------------------------------
(* iter_discrete_escape on drawn inputs.                                   *)

EscapeNames == {"s1", "s2"}

\* The infer mappings a message may carry.
EscapeInfers ==
    {Infer(k, e, x, 0) : k \in SUBSET {"enumerate", "expand"},
                         e \in {"sequential", "parallel", "None"}, x \in BOOLEAN}

\* The messages of sample and param statements, observed or not.
EscapeMsgs ==
    {Msg(n, t, o, Bernoulli, IF o THEN <<1>> ELSE None, i) :
        n \in EscapeNames, t \in {"sample", "param"}, o \in BOOLEAN, i \in EscapeInfers}

\* The traces the predicate is given: none, one or both names recorded.
EscapeTraces ==
    {<<>>,
     <<Msg("s1", "sample", FALSE, Bernoulli, <<1>>, Sequential)>>,
     <<Msg("s1", "sample", FALSE, Bernoulli, <<0>>, Sequential),
       Msg("s2", "sample", FALSE, Bernoulli, <<1>>, Parallel)>>}

DriverIdle ==
    /\ prog = <<>>
    /\ pc = "idle"
    /\ queue = <<>>
    /\ P = EmptyTrace
    /\ tr = EmptyTrace
    /\ idx = 0
    /\ yielded = <<>>
    /\ completed = 0
    /\ replayed = {}
    /\ produced = <<>>
    /\ outcome = "none"
    /\ requests = 0

EscapeInit ==
    /\ emsg \in EscapeMsgs
    /\ etrace \in EscapeTraces
    /\ eres = <<>>
    /\ DriverIdle
    /\ ExtendIdle
    /\ PairIdle
    /\ ConfigIdle

\* The handler asks whether the replay must suspend at the message.
CallEscape ==
    /\ eres = <<>>
    /\ eres' = <<iter_discrete_escape(etrace, emsg)>>
    /\ UNCHANGED <<emsg, etrace, driverVars, extendVars, pairVars, configVars>>

SpecEscape == EscapeInit /\ [][CallEscape]_vars

\* C8: iter_discrete_escape returns true exactly when the message is a sample
\* site, is not observed, carries the directive enumerate = "sequential" and
\* its name is not recorded in the trace; so a parallel or undirected site, an
\* observed site, a param site and a recorded site never suspend the replay.
C8_EscapeIff ==
    eres # <<>> =>
        /\ eres[1] = TRUE <=>
              /\ emsg.type = "sample"
              /\ emsg.is_observed = FALSE
              /\ "enumerate" \in emsg.infer.keys
              /\ emsg.infer.enumerate = "sequential"
              /\ \A i \in DOMAIN etrace : etrace[i].name # emsg.name
        /\ ( \/ emsg.type = "param"
             \/ emsg.is_observed
             \/ "enumerate" \notin emsg.infer.keys
             \/ emsg.infer.enumerate = "parallel"
             \/ \E i \in DOMAIN etrace : etrace[i].name = emsg.name ) => eres[1] = FALSE

C8_Witness ==
    /\ eres = <<TRUE>>
    /\ emsg.name = "s2"
    /\ Len(etrace) = 1
    /\ "expand" \in emsg.infer.keys

----------------------------------------------------------------------------
(* iter_discrete_extend as a generator over Python objects, and a consumer *)
(* that mutates the traces it was handed.                                  *)

\* The resolved sites an input trace may hold at position i: one enumerated
\* sequentially on an earlier replay, one sampled.
ResolvedSites(i) ==
    {[Stmt("seq2", i) EXCEPT !.value = <<1>>, !.infer = SetEnumTotal(Sequential, 2)],
     [Stmt("par2", i) EXCEPT !.value = <<0>>]}

\* The input traces: up to MaxTrace resolved sites.
ExtendTraces ==
    UNION {{t \in [1..n -> UNION {ResolvedSites(i) : i \in 1..n}] :
               \A i \in 1..n : t[i] \in ResolvedSites(i)} : n \in 0..MaxTrace}

\* The suspended sites, named after the position they would take.
ExtendSites(i) ==
    {Msg(SiteName(i), "sample", FALSE, fn, None, infer) :
        fn \in {Bernoulli, Categorical3, EmptySupport},
        infer \in {Sequential, Infer({"enumerate", "expand"}, "sequential", FALSE, 0)}}

ExtendInit ==
    /\ \E t \in ExtendTraces : \E m \in ExtendSites(Len(t) + 1) :
          /\ heap = Load(t, m)
          /\ xin = [trace |-> 1, site |-> Len(t) + 1]
    /\ xout = <<>>
    /\ xpc = "created"
    /\ xvalues = <<>>
    /\ xnext = 0
    /\ xmut = <<>>
    /\ DriverIdle
    /\ EscapeIdle
    /\ PairIdle
    /\ ConfigIdle

\* The first request enters the generator: the support is computed.
XBegin ==
    /\ xpc = "created"
    /\ LET s == heap.sites[xin.site]
       IN  xvalues' = enumerate_support(s.fn, GetExpand(heap.infers[s.infer], EXPAND_DEFAULT))
    /\ xnext' = 1
    /\ xpc' = "loop"
    /\ UNCHANGED <<heap, xin, xout, xmut, driverVars, escapeVars,
                   pairVars, configVars>>

\* One iteration of the for loop: a fork is built and yielded.
XYield ==
    /\ xpc = "loop"
    /\ xnext <= Len(xvalues)
    /\ heap' = ExtendBody(heap, xin.trace, xin.site, xvalues[xnext], Len(xvalues))
    /\ xout' = Append(xout, Len(heap'.traces))
    /\ xnext' = xnext + 1
    /\ UNCHANGED <<xin, xpc, xvalues, xmut, driverVars, escapeVars,
                   pairVars, configVars>>

\* The for loop is over: the generator returns.
XReturn ==
    /\ xpc = "loop"
    /\ xnext > Len(xvalues)
    /\ xpc' = "exhausted"
    /\ UNCHANGED <<heap, xin, xout, xvalues, xnext, xmut, driverVars, escapeVars,
                   pairVars, configVars>>

\* site["value"] = 7, or site["infer"]["enumerate"] = "mutated", on site dict s.
Mutate(h, s, entry) ==
    IF entry = "value"
    THEN [h EXCEPT !.sites[s].value = <<7>>]
    ELSE [h EXCEPT !.infers[h.sites[s].infer] =
                       [@ EXCEPT !.keys = @ \cup {"enumerate"}, !.enumerate = "mutated"]]

\* The consumer mutates the j-th site of the f-th trace it was handed.
XMutate ==
    /\ Len(xmut) < MaxMutations
    /\ \E f \in DOMAIN xout : \E j \in DOMAIN heap.traces[xout[f]] :
          \E entry \in {"value", "infer"} :
              /\ heap' = Mutate(heap, heap.traces[xout[f]][j], entry)
              /\ xmut' = Append(xmut, <<f, j, entry>>)
    /\ UNCHANGED <<xin, xout, xpc, xvalues, xnext, driverVars, escapeVars,
                   pairVars, configVars>>

ExtendNext ==
    \/ XBegin
    \/ XYield
    \/ XReturn
    \/ XMutate

SpecExtend == ExtendInit /\ [][ExtendNext]_vars

\* The arguments of the call, read through their references.
InputTrace == TraceValue(heap, xin.trace)
SuspendedSite == SiteValue(heap, xin.site)

\* The f-th trace yielded.
Fork(h, f) == TraceValue(h, xout[f])

\* C9: for a support v_1..v_n the generator yields n traces, in that order;
\* the i-th holds the sites of the input trace followed by the suspended site
\* under its own name with value v_i and infer['_enum_total'] = n, its other
\* entries as in the suspended site.
C9_ExtendYields ==
    (xpc # "idle" /\ xmut = <<>>) =>
        LET support == SuspendedSite.fn.support
            n == Len(support)
        IN  /\ Len(xout) <= n
            /\ xpc = "exhausted" => Len(xout) = n
            /\ \A i \in DOMAIN xout :
                  LET T == Fork(heap, i)
                      new == T[Len(T)]
                  IN  /\ Len(T) = Len(InputTrace) + 1
                      /\ SubSeq(T, 1, Len(InputTrace)) = InputTrace
                      /\ new.name = SuspendedSite.name
                      /\ new.value = <<support[i]>>
                      /\ "_enum_total" \in new.infer.keys
                      /\ new.infer.enum_total = n
                      /\ new.infer.keys \ {"_enum_total"} = SuspendedSite.infer.keys
                      /\ new.infer.enumerate = SuspendedSite.infer.enumerate
                      /\ new.infer.expand = SuspendedSite.infer.expand
                      /\ new.fn = SuspendedSite.fn
                      /\ new.type = SuspendedSite.type
                      /\ new.is_observed = SuspendedSite.is_observed

C9_Witness ==
    /\ xpc = "exhausted"
    /\ Len(xout) = 3
    /\ Len(InputTrace) = 2
    /\ xmut = <<>>

\* The suspended site has gained neither a value nor an '_enum_total' entry.
SuspendedSiteUntouched ==
    xpc # "idle" =>
        /\ SuspendedSite.value = None
        /\ "_enum_total" \notin SuspendedSite.infer.keys

\* A mutation made through fork f leaves the other forks, the input trace and
\* the suspended site as they were.
MutationIsLocal(f) ==
    /\ \A g \in DOMAIN xout : g # f => Fork(heap', g) = Fork(heap, g)
    /\ TraceValue(heap', xin.trace) = InputTrace
    /\ SiteValue(heap', xin.site) = SuspendedSite

----------------------------------------------------------------------------
(* get_importance_trace on a model/guide pair.                             *)

\* A site of a model or a guide.  dims is the number of batch dimensions of
\* its value; log_prob and score_parts tell whether the quantity was computed.
Site(name, type, observed, fn, value, dims) ==
    [name |-> name, type |-> type, is_observed |-> observed, fn |-> fn,
     value |-> value, dims |-> dims, log_prob |-> FALSE, score_parts |-> FALSE]

\* The statement of a kind at position i of a model or a guide: a
\* latent sample site with 0 or 1 batch dimensions, an observed sample site,
\* a param site, a subsampling bookkeeping site, or no statement at all.
PairStmt(kind, i) ==
    CASE kind = "lat0" -> Site(SiteName(i), "sample", FALSE, Bernoulli, None, 0)
      [] kind = "lat1" -> Site(SiteName(i), "sample", FALSE, Bernoulli, None, 1)
      [] kind = "obs0" -> Site(SiteName(i), "sample", TRUE, Bernoulli, <<1>>, 0)
      [] kind = "param" -> Site(SiteName(i), "param", FALSE, EmptySupport, <<0>>, 0)
      [] kind = "sub" -> Site(SiteName(i), "subsample", FALSE, EmptySupport, <<0>>, 0)
      [] kind = "skip" -> Site(SiteName(i), "skip", FALSE, EmptySupport, None, 0)

ModelKinds == {"lat0", "lat1", "obs0", "param", "sub"}
GuideKinds == {"lat0", "lat1", "sub", "skip"}

NotSkipped(site) == site.type # "skip"

\* The programs of up to MaxPairSites positions over a set of kinds.
PairPrograms(kinds) ==
    UNION {{SelectSeq([i \in 1..n |-> PairStmt(k[i], i)], NotSkipped) :
                k \in [1..n -> kinds]} : n \in 0..MaxPairSites}

\* The names of the sites of a trace that satisfy a test.
NamesWhere(trace, Test(_)) == {trace[i].name : i \in {j \in DOMAIN trace : Test(trace[j])}}

IsSample(site) == site.type = "sample"
IsLatent(site) == site.type = "sample" /\ ~site.is_observed

\* poutine.replay(model, trace=guide_trace): a sampling site of the model
\* that the guide also defines is forced to the guide's recorded value.
Replayed(site, trace) == IsLatent(site) /\ site.name \in NamesWhere(trace, IsSample)

\* The values a site may take in a run replayed against a trace.
ReplayValues(site, trace) ==
    IF Replayed(site, trace) THEN {Node(trace, site.name).value} ELSE Draws(site)

RECURSIVE Execute(_, _, _, _)
\* poutine.trace(fn).get_trace(): the traces the runs of a program from its
\* i-th statement may record, replayed against a trace (the empty trace
\* for a run that is not replayed).
Execute(program, i, acc, trace) ==
    IF i > Len(program) THEN {acc}
    ELSE UNION {Execute(program, i + 1, Append(acc, [program[i] EXCEPT !.value = v]), trace) :
                    v \in ReplayValues(program[i], trace)}

\* check_model_guide_match signals a mismatch when the non-observed sample
\* sites of the model and the sample sites of the guide disagree.
Mismatch(mt, gt) == NamesWhere(mt, IsLatent) # NamesWhere(gt, IsSample)

\* prune_subsample_sites: the trace without its subsampling bookkeeping sites.
NotSubsample(site) == site.type # "subsample"
prune_subsample_sites(trace) == SelectSeq(trace, NotSubsample)

\* Trace.compute_log_prob and Trace.compute_score_parts: every sample site
\* gets its quantity.
compute_log_prob(trace) ==
    [i \in DOMAIN trace |-> IF IsSample(trace[i]) THEN [trace[i] EXCEPT !.log_prob = TRUE]
                            ELSE trace[i]]
compute_score_parts(trace) ==
    [i \in DOMAIN trace |-> IF IsSample(trace[i]) THEN [trace[i] EXCEPT !.score_parts = TRUE]
                            ELSE trace[i]]

\* check_site_shape(site, max_iarange_nesting) raises when the site has more
\* batch dimensions than the nesting bound allows.
ShapeViolation(site, bound) == site.dims > bound

\* The loops of the shape check look at the sample sites only.
ShapeChecked(site) == site.type = "sample"

\* The sites of a trace on which the shape check raises, in trace order.
Violations(trace, bound) ==
    SelectSeq(trace, LAMBDA site : ShapeChecked(site) /\ ShapeViolation(site, bound))

\* A call that checks whatever the toggle says.
ValidationAlways(flag) == TRUE

\* if is_validation_enabled(): the checks run when the toggle is on.
ValidationEnabled(flag) == flag

NoResult == [kind |-> "none", error |-> "", site |-> ""]
Raised(error, site) == [kind |-> "raised", error |-> error, site |-> site]
ReturnedPair == [kind |-> "pair", error |-> "", site |-> ""]

PairInit ==
    /\ model \in PairPrograms(ModelKinds)
    /\ guide \in PairPrograms(GuideKinds)
    /\ validation \in BOOLEAN
    /\ max_iarange_nesting \in 0..1
    /\ ipc = "called"
    /\ guide_trace = <<>>
    /\ model_trace = <<>>
    /\ iret = NoResult
    /\ DriverIdle
    /\ EscapeIdle
    /\ ExtendIdle
    /\ ConfigIdle

\* guide_trace = poutine.trace(guide).get_trace(): the guide runs to its end.
RunGuide ==
    /\ ipc = "called"
    /\ guide_trace' \in Execute(guide, 1, <<>>, <<>>)
    /\ ipc' = "guide_run"
    /\ UNCHANGED <<model, guide, validation, max_iarange_nesting, model_trace, iret,
                   driverVars, escapeVars, extendVars, configVars>>

\* A call that runs the model without replaying it against the guide trace.
RunModelUnreplayed ==
    /\ ipc = "guide_run"
    /\ model_trace' \in Execute(model, 1, <<>>, <<>>)
    /\ ipc' = "model_run"
    /\ UNCHANGED <<model, guide, validation, max_iarange_nesting, guide_trace, iret,
                   driverVars, escapeVars, extendVars, configVars>>

\* model_trace = poutine.trace(poutine.replay(model, trace=guide_trace)).get_trace().
RunModel ==
    /\ ipc = "guide_run"
    /\ model_trace' \in Execute(model, 1, <<>>, guide_trace)
    /\ ipc' = "model_run"
    /\ UNCHANGED <<model, guide, validation, max_iarange_nesting, guide_trace, iret,
                   driverVars, escapeVars, extendVars, configVars>>

\* if is_validation_enabled(): check_model_guide_match(...) raises.
MatchRaise ==
    /\ ipc = "model_run"
    /\ ValidationEnabled(validation)
    /\ Mismatch(model_trace, guide_trace)
    /\ ipc' = "raised"
    /\ iret' = Raised("mismatch", "")
    /\ UNCHANGED <<model, guide, validation, max_iarange_nesting, guide_trace, model_trace,
                   driverVars, escapeVars, extendVars, configVars>>

\* The match check passes or is skipped, and both traces are pruned.
Prune ==
    /\ ipc = "model_run"
    /\ ~(ValidationEnabled(validation) /\ Mismatch(model_trace, guide_trace))
    /\ guide_trace' = prune_subsample_sites(guide_trace)
    /\ model_trace' = prune_subsample_sites(model_trace)
    /\ ipc' = "pruned"
    /\ UNCHANGED <<model, guide, validation, max_iarange_nesting, iret,
                   driverVars, escapeVars, extendVars, configVars>>

\* model_trace.compute_log_prob(); guide_trace.compute_score_parts().
Score ==
    /\ ipc = "pruned"
    /\ model_trace' = compute_log_prob(model_trace)
    /\ guide_trace' = compute_score_parts(guide_trace)
    /\ ipc' = "scored"
    /\ UNCHANGED <<model, guide, validation, max_iarange_nesting, iret,
                   driverVars, escapeVars, extendVars, configVars>>

\* A shape check whose loops run in the other order, the guide trace first.
ShapeRaiseGuideFirst ==
    /\ ipc = "scored"
    /\ ValidationEnabled(validation)
    /\ LET found == Violations(guide_trace, max_iarange_nesting)
                        \o Violations(model_trace, max_iarange_nesting)
       IN  /\ found # <<>>
           /\ iret' = Raised("shape", found[1].name)
    /\ ipc' = "raised"
    /\ UNCHANGED <<model, guide, validation, max_iarange_nesting, guide_trace, model_trace,
                   driverVars, escapeVars, extendVars, configVars>>

\* The shape check raises at the first violating site: the sites of the model
\* trace are checked first, then those of the guide trace.
ShapeRaise ==
    /\ ipc = "scored"
    /\ ValidationEnabled(validation)
    /\ LET found == Violations(model_trace, max_iarange_nesting)
                        \o Violations(guide_trace, max_iarange_nesting)
       IN  /\ found # <<>>
           /\ iret' = Raised("shape", found[1].name)
    /\ ipc' = "raised"
    /\ UNCHANGED <<model, guide, validation, max_iarange_nesting, guide_trace, model_trace,
                   driverVars, escapeVars, extendVars, configVars>>

\* return model_trace, guide_trace.
ReturnPair ==
    /\ ipc = "scored"
    /\ ~(/\ ValidationEnabled(validation)
         /\ Violations(model_trace, max_iarange_nesting)
                \o Violations(guide_trace, max_iarange_nesting) # <<>>)
    /\ ipc' = "returned"
    /\ iret' = ReturnedPair
    /\ UNCHANGED <<model, guide, validation, max_iarange_nesting, guide_trace, model_trace,
                   driverVars, escapeVars, extendVars, configVars>>

PairNext ==
    \/ RunGuide
    \/ RunModel
    \/ MatchRaise
    \/ Prune
    \/ Score
    \/ ShapeRaise
    \/ ReturnPair

SpecPair == PairInit /\ [][PairNext]_vars

----------------------------------------------------------------------------
(* Properties of get_importance_trace.                                     *)

\* The call has ended: it returned the pair or raised.
PairEnded == ipc \in {"returned", "raised"}

\* The model has a non-observed sample site with no counterpart in the guide.
ModelSiteMissing ==
    \E i \in DOMAIN model :
        /\ model[i].type = "sample"
        /\ ~model[i].is_observed
        /\ \A j \in DOMAIN guide : ~(guide[j].type = "sample" /\ guide[j].name = model[i].name)

\* C11: when the model has a non-observed sample site with no counterpart in
\* the guide, the call raises the mismatch error and returns no pair if
\* validation is enabled, and returns the pair without raising if validation
\* is disabled.
C11_MismatchIffValidation ==
    /\ [](ModelSiteMissing =>
            /\ validation =>
                  /\ ipc \notin {"pruned", "scored", "returned"}
                  /\ iret.kind # "pair"
                  /\ ipc = "raised" => iret = Raised("mismatch", "")
            /\ ~validation =>
                  /\ ipc # "raised"
                  /\ iret.kind # "raised"
                  /\ ipc = "returned" => iret = ReturnedPair)
    /\ [][(ModelSiteMissing /\ validation /\ ipc = "model_run") => ipc' = "raised"]_vars
    /\ [][(ModelSiteMissing /\ ~validation /\ ipc = "scored") => ipc' = "returned"]_vars

C11_Witness ==
    /\ ModelSiteMissing
    /\ validation
    /\ ipc = "raised"
    /\ iret.error = "mismatch"
    /\ Len(model) = 2
    /\ Len(guide) >= 1

\* C12: the guide has run to completion, every statement of it recorded with
\* a value, before the model records anything; and from the model's run on,
\* every non-observed sample site of the model trace that the guide trace also
\* defines holds exactly the value the guide trace records for that name.
C12_ReplayAgainstGuide ==
    /\ ipc = "called" => (guide_trace = <<>> /\ model_trace = <<>>)
    /\ ipc = "guide_run" =>
          /\ model_trace = <<>>
          /\ [i \in DOMAIN guide_trace |-> guide_trace[i].name]
                = [i \in DOMAIN guide |-> guide[i].name]
          /\ \A i \in DOMAIN guide_trace : guide_trace[i].value # None
    /\ ipc \in {"model_run", "pruned", "scored", "returned"} =>
          \A i \in DOMAIN model_trace :
              \A j \in DOMAIN guide_trace :
                  (/\ model_trace[i].type = "sample"
                   /\ ~model_trace[i].is_observed
                   /\ guide_trace[j].type = "sample"
                   /\ guide_trace[j].name = model_trace[i].name)
                      => (/\ model_trace[i].value = guide_trace[j].value
                          /\ model_trace[i].value # None)

C12_Witness ==
    /\ ipc = "returned"
    /\ Len(model_trace) = 2
    /\ Len(guide_trace) = 2
    /\ guide_trace[1].value = <<1>>
    /\ guide_trace[2].value = <<0>>
    /\ model_trace[1].value = <<1>>
    /\ model_trace[2].value = <<0>>
    /\ ~model_trace[1].is_observed
    /\ ~model_trace[2].is_observed

\* The positions of a trace whose site violates the nesting bound.
BadShapes(trace) == {i \in DOMAIN trace : trace[i].dims > max_iarange_nesting}

\* The first position of a non-empty set of positions.
First(S) == CHOOSE i \in S : \A j \in S : i <= j

\* C19 as stated: with validation enabled, a shape violation at any site of
\* the model trace or the guide trace makes the call raise a validation error
\* naming that site and return no pair; with validation disabled the pair is
\* returned.
C19_ShapeErrorNamesSite ==
    PairEnded =>
        /\ validation =>
              /\ \A i \in BadShapes(model_trace) :
                    iret = Raised("shape", model_trace[i].name)
              /\ \A i \in BadShapes(guide_trace) :
                    iret = Raised("shape", guide_trace[i].name)
        /\ ~validation => iret = ReturnedPair

\* C19, amended: with validation enabled and no mismatch signalled, a shape
\* violation at a sample site of the model trace or the guide trace makes the
\* call raise a validation error and return no pair; the error names the
\* first violating site, the model trace being checked before the guide
\* trace; without a violation the pair is returned.  With validation disabled
\* the pair is returned.
C19_ShapeErrorFirstSite ==
    PairEnded =>
        /\ (validation /\ iret.error # "mismatch") =>
              /\ BadShapes(model_trace) # {} =>
                    iret = Raised("shape", model_trace[First(BadShapes(model_trace))].name)
              /\ (BadShapes(model_trace) = {} /\ BadShapes(guide_trace) # {}) =>
                    iret = Raised("shape", guide_trace[First(BadShapes(guide_trace))].name)
              /\ (BadShapes(model_trace) = {} /\ BadShapes(guide_trace) = {}) =>
                    iret = ReturnedPair
        /\ ~validation => iret = ReturnedPair

C19_Witness ==
    /\ ipc = "raised"
    /\ iret.error = "shape"
    /\ BadShapes(model_trace) = {}
    /\ BadShapes(guide_trace) = {1, 2}
    /\ iret.site = guide_trace[1].name

----------------------------------------------------------------------------
(* config_enumerate, the configurator it returns when the guide is omitted, *)
(* and the guide it returns, run under the infer_config handlers.           *)

\* The values given for default and for expand; "None", "True" and "False"
\* stand for the Python constants, the other strings for themselves.
Defaults == {"sequential", "parallel", "None", "bogus"}
Expands == {"True", "False", "None", "bogus"}

\* The boolean a valid expand argument stands for.
ExpandValue(expand) == expand = "True"

\* The statement of a kind at position i of a guide.
ConfigStmt(kind, i) ==
    CASE kind = "plain" -> Msg(SiteName(i), "sample", FALSE, Bernoulli, None, NoDirective)
      [] kind = "seq" -> Msg(SiteName(i), "sample", FALSE, Bernoulli, None, Sequential)
      [] kind = "par" -> Msg(SiteName(i), "sample", FALSE, Bernoulli, None, Parallel)
      [] kind = "none" -> Msg(SiteName(i), "sample", FALSE, Bernoulli, None,
                              Infer({"enumerate"}, "None", FALSE, 0))
      [] kind = "exp" -> Msg(SiteName(i), "sample", FALSE, Bernoulli, None,
                             Infer({"expand"}, "None", FALSE, 0))
      [] kind = "parexp" -> Msg(SiteName(i), "sample", FALSE, Bernoulli, None,
                                Infer({"enumerate", "expand"}, "parallel", FALSE, 0))
      [] kind = "obs" -> Msg(SiteName(i), "sample", TRUE, Bernoulli, <<1>>, NoDirective)
      [] kind = "normal" -> Msg(SiteName(i), "sample", FALSE, Normal, None, NoDirective)
      [] kind = "callable" -> Msg(SiteName(i), "sample", FALSE, Callable, None, NoDirective)
      [] kind = "param" -> Msg(SiteName(i), "param", FALSE, Callable, <<0>>, NoDirective)

ConfigKinds ==
    {"plain", "seq", "par", "none", "exp", "parexp", "obs", "normal", "callable", "param"}

ConfigPrograms ==
    UNION {{[i \in 1..n |-> ConfigStmt(k[i], i)] : k \in [1..n -> ConfigKinds]} :
               n \in 1..MaxConfigSites}

\* dict.update(other): the entries of other replace or extend those of infer.
Update(infer, other) ==
    [keys |-> infer.keys \cup other.keys,
     enumerate |-> IF "enumerate" \in other.keys THEN other.enumerate ELSE infer.enumerate,
     expand |-> IF "expand" \in other.keys THEN other.expand ELSE infer.expand,
     enum_total |-> IF "_enum_total" \in other.keys THEN other.enum_total ELSE infer.enum_total]

\* getattr(site["fn"], "has_enumerate_support", False).
HasEnumerateSupport(fn) == fn.has_enumerate_support = <<TRUE>>

\* _config_enumerate(default, expand): the closure config_fn with its free
\* variables.
_config_enumerate(default, expand) == [default |-> default, expand |-> expand]

\* A config_fn that sets enumerate to the default whatever the site carries.
config_fn_overwrite(closure, site) ==
    IF site.type # "sample" \/ site.is_observed THEN NoDirective
    ELSE IF ~HasEnumerateSupport(site.fn) THEN NoDirective
    ELSE Infer({"enumerate", "expand"},
               closure.default,
               GetExpand(site.infer, ExpandValue(closure.expand)), 0)

\* A config_fn that does not look at has_enumerate_support.
config_fn_any_fn(closure, site) ==
    IF site.type # "sample" \/ site.is_observed THEN NoDirective
    ELSE Infer({"enumerate", "expand"},
               IF "enumerate" \in site.infer.keys THEN site.infer.enumerate
               ELSE closure.default,
               GetExpand(site.infer, ExpandValue(closure.expand)), 0)

\* A config_fn that sets expand to the requested flag whatever the site carries.
config_fn_expand_overwrite(closure, site) ==
    IF site.type # "sample" \/ site.is_observed THEN NoDirective
    ELSE IF ~HasEnumerateSupport(site.fn) THEN NoDirective
    ELSE Infer({"enumerate", "expand"},
               IF "enumerate" \in site.infer.keys THEN site.infer.enumerate
               ELSE closure.default,
               ExpandValue(closure.expand), 0)

\* config_fn(site): the entries to set in the site's infer mapping.
config_fn(closure, site) ==
    IF site.type # "sample" \/ site.is_observed THEN NoDirective
    ELSE IF ~HasEnumerateSupport(site.fn) THEN NoDirective
    ELSE Infer({"enumerate", "expand"},
               IF "enumerate" \in site.infer.keys THEN site.infer.enumerate
               ELSE closure.default,
               GetExpand(site.infer, ExpandValue(closure.expand)), 0)

\* poutine.infer_config: the handler updates the infer mapping of each
\* message with what config_fn returns for it.
InferConfig(site, closure) == [site EXCEPT !.infer = Update(@, config_fn(closure, site))]

RECURSIVE ApplyLayers(_, _)
\* A message passed through a sequence of handlers, first to last.
ApplyLayers(site, layers) ==
    IF layers = <<>> THEN site
    ELSE ApplyLayers(InferConfig(site, Head(layers)), Tail(layers))

Reverse(seq) == [i \in DOMAIN seq |-> seq[Len(seq) + 1 - i]]

\* The messages of a run of a guide wrapped in handlers, the handler applied
\* first seeing each message first or last.
RunUnder(program, layers, order) ==
    [i \in DOMAIN program |->
        ApplyLayers(program[i], IF order = "inner" THEN layers ELSE Reverse(layers))]

\* A config_enumerate that returns the configurator before it validates.
config_enumerate_deferred(guideArg, default, expand, layers) ==
    IF guideArg = <<>> THEN [kind |-> "configurator", layers |-> layers]
    ELSE IF default \notin {"sequential", "parallel", "None"}
    THEN [kind |-> "ValueError", layers |-> layers]
    ELSE IF expand \notin {"True", "False"}
    THEN [kind |-> "ValueError", layers |-> layers]
    ELSE [kind |-> "guide", layers |-> Append(layers, _config_enumerate(default, expand))]

\* config_enumerate(guide, default, expand), the guide given being a program
\* already wrapped in the handlers `layers`.
config_enumerate(guideArg, default, expand, layers) ==
    IF default \notin {"sequential", "parallel", "None"}
    THEN [kind |-> "ValueError", layers |-> layers]
    ELSE IF expand \notin {"True", "False"}
    THEN [kind |-> "ValueError", layers |-> layers]
    ELSE IF guideArg = <<>> THEN [kind |-> "configurator", layers |-> layers]
    ELSE [kind |-> "guide", layers |-> Append(layers, _config_enumerate(default, expand))]

\* Where the caller stands after a call that returned or raised.
AfterCall(kind) ==
    CASE kind = "ValueError" -> "raised"
      [] kind = "configurator" -> "configurator"
      [] kind = "guide" -> "configured"

ConfigInit ==
    /\ cguide \in [given : BOOLEAN, program : ConfigPrograms]
    /\ cdefault \in Defaults
    /\ cexpand \in Expands
    /\ corder \in {"inner", "outer"}
    /\ cpc = "start"
    /\ cret = "none"
    /\ clayers = <<>>
    /\ ctrace = <<>>
    /\ DriverIdle
    /\ EscapeIdle
    /\ ExtendIdle
    /\ PairIdle

\* config_enumerate(guide, default, expand), or config_enumerate(default=...,
\* expand=...) with the guide omitted.
ConfigCall ==
    /\ cpc = "start"
    /\ LET r == config_enumerate(IF cguide.given THEN <<cguide.program>> ELSE <<>>,
                                 cdefault, cexpand, clayers)
       IN  /\ cret' = r.kind
           /\ clayers' = r.layers
           /\ cpc' = AfterCall(r.kind)
    /\ UNCHANGED <<cguide, cdefault, cexpand, corder, ctrace,
                   driverVars, escapeVars, extendVars, pairVars>>

\* The configurator is given the guide:
\* lambda guide: config_enumerate(guide, default=default, expand=expand).
CallConfigurator ==
    /\ cpc = "configurator"
    /\ LET r == config_enumerate(<<cguide.program>>, cdefault, cexpand, clayers)
       IN  /\ cret' = r.kind
           /\ clayers' = r.layers
           /\ cpc' = AfterCall(r.kind)
    /\ UNCHANGED <<cguide, cdefault, cexpand, corder, ctrace,
                   driverVars, escapeVars, extendVars, pairVars>>

\* config_enumerate is applied to the guide it returned before.
Reapply ==
    /\ cpc = "configured"
    /\ Len(clayers) < MaxApplications
    /\ \E d \in Defaults : \E e \in Expands :
          LET r == config_enumerate(<<cguide.program>>, d, e, clayers)
          IN  /\ cret' = r.kind
              /\ clayers' = r.layers
              /\ cpc' = AfterCall(r.kind)
    /\ UNCHANGED <<cguide, cdefault, cexpand, corder, ctrace,
                   driverVars, escapeVars, extendVars, pairVars>>

\* The returned guide is run: its messages pass through the handlers.
RunConfigured ==
    /\ cpc = "configured"
    /\ ctrace' = RunUnder(cguide.program, clayers, corder)
    /\ cpc' = "ran"
    /\ UNCHANGED <<cguide, cdefault, cexpand, corder, cret, clayers,
                   driverVars, escapeVars, extendVars, pairVars>>

ConfigNext ==
    \/ ConfigCall
    \/ CallConfigurator
    \/ Reapply
    \/ RunConfigured

SpecConfig == ConfigInit /\ [][ConfigNext]_vars

----------------------------------------------------------------------------
(* Properties of config_enumerate.                                         *)

\* The arguments of the first call are invalid.
InvalidArguments ==
    \/ cdefault \notin {"sequential", "parallel", "None"}
    \/ cexpand \notin {"True", "False"}

C14_KeepsEnumerate ==
    cpc = "ran" =>
        \A i \in DOMAIN ctrace :
            "enumerate" \in cguide.program[i].infer.keys =>
                /\ "enumerate" \in ctrace[i].infer.keys
                /\ ctrace[i].infer.enumerate = cguide.program[i].infer.enumerate

C14_Witness ==
    /\ cpc = "ran"
    /\ Len(clayers) = 2
    /\ clayers[1].default = "sequential"
    /\ clayers[2].default = "None"
    /\ cguide.program[1].infer.keys = {"enumerate"}
    /\ cguide.program[1].infer.enumerate = "parallel"
    /\ ctrace[1].infer.enumerate = "parallel"

\* C15 as stated: after config_enumerate(guide, default, expand), every sample
\* site whose distribution has enumerate support and which carries no
\* enumerate annotation is annotated with enumerate = default and expand =
\* expand; a site that is not a sample site, or whose distribution lacks
\* enumerate support, receives no annotation.
C15_AnnotatesEverySampleSite ==
    (cpc = "ran" /\ Len(clayers) = 1) =>
        \A i \in DOMAIN ctrace :
            LET site == cguide.program[i]
                infer == ctrace[i].infer
            IN  /\ (/\ site.type = "sample"
                    /\ site.fn.has_enumerate_support = <<TRUE>>
                    /\ "enumerate" \notin site.infer.keys)
                      => /\ {"enumerate", "expand"} \subseteq infer.keys
                         /\ infer.enumerate = cdefault
                         /\ infer.expand = (cexpand = "True")
                /\ (site.type # "sample" \/ site.fn.has_enumerate_support # <<TRUE>>)
                      => infer = site.infer

\* C15, amended: every sample site that is not observed, whose distribution
\* has enumerate support and which carries no enumerate annotation is
\* annotated with enumerate = default, and with expand = expand unless it
\* carries an expand directive, which it keeps; a site that is not a sample
\* site, is observed, or whose distribution lacks enumerate support, receives
\* no annotation.
C15_AnnotatesUnannotated ==
    (cpc = "ran" /\ Len(clayers) = 1) =>
        \A i \in DOMAIN ctrace :
            LET site == cguide.program[i]
                infer == ctrace[i].infer
            IN  /\ (/\ site.type = "sample"
                    /\ ~site.is_observed
                    /\ site.fn.has_enumerate_support = <<TRUE>>
                    /\ "enumerate" \notin site.infer.keys)
                      => /\ infer.keys = {"enumerate", "expand"}
                         /\ infer.enumerate = cdefault
                         /\ "expand" \notin site.infer.keys => infer.expand = (cexpand = "True")
                         /\ "expand" \in site.infer.keys => infer.expand = site.infer.expand
                /\ (\/ site.type # "sample"
                    \/ site.is_observed
                    \/ site.fn.has_enumerate_support # <<TRUE>>)
                      => infer = site.infer

C15_Witness ==
    /\ cpc = "ran"
    /\ Len(clayers) = 1
    /\ cdefault = "parallel"
    /\ cexpand = "True"
    /\ cguide.program[1].infer.keys = {"expand"}
    /\ ctrace[1].infer.keys = {"enumerate", "expand"}
    /\ ctrace[1].infer.enumerate = "parallel"
    /\ ctrace[1].infer.expand = FALSE

\* C20 as stated: the whole infer mapping of a site that carries an enumerate
\* annotation, the enumerate directive and the presence and value of the
\* expand directive, is the same after the transformation as before.
C20_AnnotatedSiteUntouched ==
    cpc = "ran" =>
        \A i \in DOMAIN ctrace :
            "enumerate" \in cguide.program[i].infer.keys =>
                ctrace[i].infer = cguide.program[i].infer

\* C20, amended: a site that carries an enumerate annotation keeps its
\* enumerate directive and, if it carries one, its expand directive; if it
\* carries none while being a non-observed sample site with enumerate support,
\* it gains an expand directive, the flag requested by one of the applications
\* (by the only one, if there is one); it gains no other entry.
C20_AnnotatedSiteKeepsDirectives ==
    cpc = "ran" =>
        \A i \in DOMAIN ctrace :
            LET site == cguide.program[i]
                infer == ctrace[i].infer
            IN  "enumerate" \in site.infer.keys =>
                    /\ infer.enumerate = site.infer.enumerate
                    /\ infer.keys \subseteq site.infer.keys \cup {"expand"}
                    /\ site.infer.keys \subseteq infer.keys
                    /\ "expand" \in site.infer.keys => infer.expand = site.infer.expand
                    /\ (/\ "expand" \notin site.infer.keys
                        /\ site.type = "sample"
                        /\ ~site.is_observed
                        /\ site.fn.has_enumerate_support = <<TRUE>>)
                          => /\ "expand" \in infer.keys
                             /\ \E k \in DOMAIN clayers :
                                   infer.expand = (clayers[k].expand = "True")
                             /\ Len(clayers) = 1 => infer.expand = (cexpand = "True")

C20_Witness ==
    /\ cpc = "ran"
    /\ Len(clayers) = 1
    /\ cexpand = "True"
    /\ cdefault = "sequential"
    /\ cguide.program[1].infer.keys = {"enumerate"}
    /\ cguide.program[1].infer.enumerate = "parallel"
    /\ ctrace[1].infer.keys = {"enumerate", "expand"}
    /\ ctrace[1].infer.enumerate = "parallel"
    /\ ctrace[1].infer.expand = TRUE

====
